---- MODULE Spec2Model ----
(***************************************************************************)
(* Model of python/yf_bridge.py: the value normalizer _serialize_value,   *)
(* the envelope writers _ok / _err and the request boundary main().        *)
(*                                                                         *)
(* Python values are records tagged by their type in field t.  Floats are  *)
(* abstract tokens ("nan", "inf", "-inf", "1.5"); what matters about a     *)
(* float here is only whether it is NaN or infinite.                       *)
(***************************************************************************)
EXTENDS Integers, Sequences, FiniteSets, TLC

\* ---------------------------------------------------------------- bounds
MaxLen == 2      \* longest list / tuple / ndarray / dict in a raw value
MaxRows == 2     \* most rows of a DataFrame, most elements of a Series
MaxCols == 2     \* most columns of a DataFrame
MaxCells == 4    \* most cells of a DataFrame
MaxDepth == 2    \* deepest nesting of containers in a raw value

\* ------------------------------------------------------- python values
None == [t |-> "None"]
PyBool(b) == [t |-> "bool", b |-> b]
PyInt(i) == [t |-> "int", i |-> i]
PyFloat(f) == [t |-> "float", f |-> f]
PyStr(s) == [t |-> "str", s |-> s]
PyList(items) == [t |-> "list", items |-> items]
PyTuple(items) == [t |-> "tuple", items |-> items]
\* a dict is its (key, value) pairs in insertion order, keys pairwise distinct
PyDict(pairs) == [t |-> "dict", pairs |-> pairs]
Timestamp(iso, text) == [t |-> "Timestamp", iso |-> iso, text |-> text]
Period(label) == [t |-> "Period", label |-> label]
NpGeneric(item) == [t |-> "generic", item |-> item]
NdArray(elems) == [t |-> "ndarray", elems |-> elems]
DataFrame(columns, index, values) ==
    [t |-> "DataFrame", columns |-> columns, index |-> index, values |-> values]
Series(name, index, values) ==
    [t |-> "Series", name |-> name, index |-> index, values |-> values]
\* an object with keys() and __getitem__ that is not a literal dict; lookups[i]
\* is what obj[keys[i]] does (a value, or LookupFails when it raises); base is
\* the builtin the object is also an instance of (a dict, a list, or nothing)
DictLike(keys, lookups, base) ==
    [t |-> "DictLike", keys |-> keys, lookups |-> lookups, base |-> base]
LookupFails == [t |-> "raises", exc |-> "KeyError"]
Opaque == [t |-> "object", cls |-> "Opaque"]

NaN == PyFloat("nan")
Inf == PyFloat("inf")
NegInf == PyFloat("-inf")
Finite == PyFloat("1.5")
Floats == {NaN, Inf, NegInf, Finite}
TS1 == Timestamp("2024-03-01T00:00:00+00:00", "2024-03-01 00:00:00+00:00")
P1 == Period("2024Q1")

IsNaN(v) == v.t = "float" /\ v.f = "nan"
IsNonFinite(v) == v.t = "float" /\ v.f \in {"nan", "inf", "-inf"}

\* isinstance(value, T), with a DictLike also an instance of its base type
IsInstance(v, T) == v.t = T \/ (v.t = "DictLike" /\ v.base.t = T)

Map(s, F(_)) == [i \in 1..Len(s) |-> F(s[i])]

\* str(x) for the values used as mapping keys and column labels
Str(k) ==
    CASE k.t = "str" -> k.s
      [] k.t = "int" -> (CASE k.i = 0 -> "0" [] k.i = 1 -> "1" [] k.i = 2 -> "2"
                           [] k.i = 3 -> "3" [] k.i = 4 -> "4" [] OTHER -> "int")
      [] k.t = "float" -> k.f
      [] k.t = "None" -> "None"
      [] k.t = "bool" -> (IF k.b THEN "True" ELSE "False")
      [] k.t = "Timestamp" -> k.text
      [] k.t = "Period" -> k.label
      [] OTHER -> "<object>"

\* d[k] = v on a dict under construction: an existing key keeps its position
\* and takes the new value, a new key is appended
RECURSIVE DictSet(_, _, _)
DictSet(pairs, k, v) ==
    IF pairs = <<>> THEN <<<<k, v>>>>
    ELSE IF Head(pairs)[1] = k THEN <<<<k, v>>>> \o Tail(pairs)
    ELSE <<Head(pairs)>> \o DictSet(Tail(pairs), k, v)

\* {key(p): val(p) for p in pairs}
RECURSIVE DictFrom(_, _)
DictFrom(acc, pairs) ==
    IF pairs = <<>> THEN acc
    ELSE DictFrom(DictSet(acc, Head(pairs)[1], Head(pairs)[2]), Tail(pairs))

\* ------------------------------------------------------------- _to_iso
_to_iso(value) ==
    IF value.t = "Timestamp" THEN PyStr(value.iso)
    ELSE IF value.t = "Period" THEN PyStr(value.label)
    ELSE value

\* df.where(pd.notnull(df), None) on one cell
WhereNotNull(cell) ==
    IF cell.t = "None" \/ IsNaN(cell) THEN None ELSE cell

\* value.keys() / value[k] / value.items() of a dict or a DictLike
KeysOf(v) == IF v.t = "dict" THEN Map(v.pairs, LAMBDA p : p[1]) ELSE v.keys
LookupsOf(v) == IF v.t = "dict" THEN Map(v.pairs, LAMBDA p : p[2]) ELSE v.lookups
ItemsOf(v) == IF v.t = "dict" THEN v.pairs ELSE v.base.pairs
ElemsOf(v) == IF v.t = "DictLike" THEN v.base.items ELSE v.items

\* ---------------------------------------------------- _serialize_value
RECURSIVE _serialize_value(_)

\* SerializeDataFrame with the missing cells left out of each row
SerializeDataFrameDropMissing(value) ==
    PyDict(<< <<PyStr("__type__"), PyStr("dataframe")>>,
              <<PyStr("columns"), PyList(Map(value.columns, LAMBDA c : PyStr(Str(c))))>>,
              <<PyStr("index"), PyList(Map(value.index, _to_iso))>>,
              <<PyStr("data"),
                PyList(Map(value.values, LAMBDA row :
                    PyList(Map(SelectSeq(row, LAMBDA v : WhereNotNull(v) # None),
                               _serialize_value))))>> >>)

\* rule 1: isinstance(value, pd.DataFrame)
SerializeDataFrame(value) ==
    PyDict(<< <<PyStr("__type__"), PyStr("dataframe")>>,
              <<PyStr("columns"), PyList(Map(value.columns, LAMBDA c : PyStr(Str(c))))>>,
              <<PyStr("index"), PyList(Map(value.index, _to_iso))>>,
              <<PyStr("data"),
                PyList(Map(value.values, LAMBDA row :
                    PyList(Map(row, LAMBDA v : _serialize_value(WhereNotNull(v))))))>> >>)

\* SerializeSeries with the tag of the DataFrame rule
SerializeSeriesAsFrame(value) ==
    PyDict(<< <<PyStr("__type__"), PyStr("dataframe")>>,
              <<PyStr("name"), IF value.name # None THEN PyStr(Str(value.name)) ELSE None>>,
              <<PyStr("index"), PyList(Map(value.index, _to_iso))>>,
              <<PyStr("data"),
                PyList(Map(value.values, LAMBDA v : _serialize_value(WhereNotNull(v))))>> >>)

\* rule 2: isinstance(value, pd.Series)
SerializeSeries(value) ==
    PyDict(<< <<PyStr("__type__"), PyStr("series")>>,
              <<PyStr("name"), IF value.name # None THEN PyStr(Str(value.name)) ELSE None>>,
              <<PyStr("index"), PyList(Map(value.index, _to_iso))>>,
              <<PyStr("data"),
                PyList(Map(value.values, LAMBDA v : _serialize_value(WhereNotNull(v))))>> >>)

\* {str(k): _serialize_value(v) for (k, v) in pairs}
SerializePairs(pairs) ==
    PyDict(DictFrom(<<>>,
        [i \in 1..Len(pairs) |-> <<PyStr(Str(pairs[i][1])), _serialize_value(pairs[i][2])>>]))

\* TryKeyValue keeping the pairs built before the failing lookup
TryKeyValuePartial(value) ==
    LET good == {n \in 0..Len(LookupsOf(value)) :
                    \A i \in 1..n : LookupsOf(value)[i] # LookupFails}
        last == CHOOSE n \in good : \A m \in good : m <= n
    IN  SerializePairs([i \in 1..last |-> <<KeysOf(value)[i], LookupsOf(value)[i]>>])

\* rule 3, the body of the try: the comprehension over value.keys(); a failing
\* value[k] raises out of the comprehension and nothing of it is kept
TryKeyValue(value) ==
    IF \E i \in 1..Len(LookupsOf(value)) : LookupsOf(value)[i] = LookupFails
    THEN LookupFails
    ELSE SerializePairs([i \in 1..Len(KeysOf(value)) |->
                            <<KeysOf(value)[i], LookupsOf(value)[i]>>])

\* rule 4: isinstance(value, np.generic)
UnwrapGeneric(value) ==
    IF IsNaN(value.item) THEN None ELSE value.item

\* rules 4..10, reached when rule 3 does not apply or its attempt raised
LaterRules(value) ==
    IF value.t = "generic" THEN UnwrapGeneric(value)
    ELSE IF value.t = "ndarray" THEN PyList(Map(value.elems, _serialize_value))
    ELSE IF IsInstance(value, "dict") THEN SerializePairs(ItemsOf(value))
    ELSE IF IsInstance(value, "list") \/ IsInstance(value, "tuple")
        THEN PyList(Map(ElemsOf(value), _serialize_value))
    ELSE IF value.t \in {"Timestamp", "Period"} THEN _to_iso(value)
    ELSE IF IsNaN(value) THEN None
    ELSE value

_serialize_value(value) ==
    IF value.t = "DataFrame" THEN SerializeDataFrame(value)
    ELSE IF value.t = "Series" THEN SerializeSeries(value)
    ELSE IF value.t \in {"dict", "DictLike"} /\ TryKeyValue(value) # LookupFails
        THEN TryKeyValue(value)
    ELSE LaterRules(value)

\* ------------------------------------------------------------ json
JNull == [t |-> "jnull"]
JBool(b) == [t |-> "jbool", b |-> b]
JNum(lit) == [t |-> "jnum", lit |-> lit]
JStr(s) == [t |-> "jstr", s |-> s]
JArr(items) == [t |-> "jarr", items |-> items]
JObj(members) == [t |-> "jobj", members |-> members]
NotJson == [t |-> "garbage"]

Raise(exc, msg) == [t |-> "raises", exc |-> exc, msg |-> msg]
IsRaise(r) == r.t = "raises"

\* the first element of s that is a raised exception
FirstRaise(s) == s[CHOOSE i \in 1..Len(s) : IsRaise(s[i]) /\ \A j \in 1..(i - 1) : ~IsRaise(s[j])]

\* the token json.dumps writes for a float
FloatToken(f) ==
    CASE f = "nan" -> "NaN" [] f = "inf" -> "Infinity" [] f = "-inf" -> "-Infinity"
      [] OTHER -> f

\* json.dumps(o, ensure_ascii=False, allow_nan=allow_nan): the document, or the
\* exception raised by the first value in traversal order that cannot be written
RECURSIVE JsonDumps(_, _)
JsonDumps(o, allow_nan) ==
    CASE o.t = "None" -> JNull
      [] o.t = "bool" -> JBool(o.b)
      [] o.t = "int" -> JNum(Str(o))
      [] o.t = "float" ->
            IF IsNonFinite(o) /\ ~allow_nan
            THEN Raise("ValueError", "Out of range float values are not JSON compliant")
            ELSE JNum(FloatToken(o.f))
      [] o.t = "str" -> JStr(o.s)
      [] o.t \in {"list", "tuple"} ->
            LET enc == Map(o.items, LAMBDA v : JsonDumps(v, allow_nan))
            IN  IF \E i \in 1..Len(enc) : IsRaise(enc[i]) THEN FirstRaise(enc) ELSE JArr(enc)
      [] o.t = "dict" ->
            LET enc == Map(o.pairs, LAMBDA p :
                        IF p[1].t \notin {"str", "int", "float", "bool", "None"}
                        THEN Raise("TypeError", "keys must be str, int, float, bool or None")
                        ELSE JsonDumps(p[2], allow_nan))
            IN  IF \E i \in 1..Len(enc) : IsRaise(enc[i]) THEN FirstRaise(enc)
                ELSE JObj([i \in 1..Len(enc) |-> <<Str(o.pairs[i][1]), enc[i]>>])
      [] OTHER -> Raise("TypeError", "Object is not JSON serializable")

\* json.loads(raw) for a well-formed document
RECURSIVE JsonLoads(_)
JsonLoads(doc) ==
    CASE doc.t = "jnull" -> None
      [] doc.t = "jbool" -> PyBool(doc.b)
      [] doc.t = "jnum" -> (CASE doc.lit = "0" -> PyInt(0) [] doc.lit = "1" -> PyInt(1)
                              [] doc.lit = "2" -> PyInt(2) [] OTHER -> PyFloat(doc.lit))
      [] doc.t = "jstr" -> PyStr(doc.s)
      [] doc.t = "jarr" -> PyList(Map(doc.items, JsonLoads))
      [] doc.t = "jobj" ->
            PyDict(DictFrom(<<>>, Map(doc.members, LAMBDA m : <<PyStr(m[1]), JsonLoads(m[2])>>)))
      [] OTHER -> Raise("JSONDecodeError", "Expecting value")

\* bool(x)
Truthy(v) ==
    CASE v.t = "None" -> FALSE
      [] v.t = "bool" -> v.b
      [] v.t = "int" -> v.i # 0
      [] v.t = "str" -> v.s # ""
      [] v.t \in {"list", "tuple"} -> v.items # <<>>
      [] v.t = "dict" -> v.pairs # <<>>
      [] OTHER -> TRUE

\* d.get(key, default) on a dict
DictGet(d, key, default) ==
    IF \E i \in 1..Len(d.pairs) : d.pairs[i][1] = PyStr(key)
    THEN d.pairs[CHOOSE i \in 1..Len(d.pairs) : d.pairs[i][1] = PyStr(key)][2]
    ELSE default

\* member lookup in a written JSON object
HasMember(doc, name) == \E i \in 1..Len(doc.members) : doc.members[i][1] = name
Member(doc, name) == doc.members[CHOOSE i \in 1..Len(doc.members) : doc.members[i][1] = name][2]

\* ------------------------------------------------ raw provider values
SeqsUpTo(S, n) == UNION {[1..k -> S] : k \in 0..n}
DistinctKeys(pairs) == \A i, j \in 1..Len(pairs) : pairs[i][1] = pairs[j][1] => i = j

Scalars ==
    {None, PyBool(TRUE), PyInt(1), PyStr("a"), TS1, P1, Opaque}
        \cup Floats \cup {NpGeneric(x) : x \in Floats \cup {PyInt(1)}}
\* what the containers of the universe hold
Elems == {None, PyInt(1), NaN, Inf, Finite, TS1, NpGeneric(NaN)}
DictKeys == {PyInt(1), PyStr("1"), PyStr("__type__")}
DictElems == {NaN, Finite, TS1}
ColumnLabel(j) == IF j = 1 THEN PyStr("date") ELSE PyInt(j)
FrameIndex == {TS1, NaN}
FrameCells == {None, NaN, Finite}
SeriesIndex == {P1, PyInt(0)}
SeriesCells == {NaN, Inf, Finite}
TupleElems == {NaN, Finite, TS1}
SeriesNames == {None, PyStr("close"), PyInt(1)}

Lists == {PyList(s) : s \in SeqsUpTo(Elems, MaxLen)}
Tuples == {PyTuple(s) : s \in SeqsUpTo(TupleElems, MaxLen)}
NdArrays == {NdArray(s) : s \in SeqsUpTo(Floats, MaxLen)}
Dicts == {PyDict(s) : s \in {q \in SeqsUpTo(DictKeys \X DictElems, MaxLen) : DistinctKeys(q)}}
\* pandas keeps a frame rectangular: one label per row, one cell per column
DataFrames ==
    UNION {{DataFrame([j \in 1..nc |-> ColumnLabel(j)], i, v) :
                i \in [1..nr -> FrameIndex], v \in [1..nr -> [1..nc -> FrameCells]]}
           : <<nr, nc>> \in {d \in (0..MaxRows) \X (0..MaxCols) : d[1] * d[2] <= MaxCells}}
SeriesSet ==
    UNION {{Series(n, i, v) : n \in SeriesNames, i \in [1..k -> SeriesIndex],
                               v \in [1..k -> SeriesCells]}
           : k \in 0..MaxRows}
KeySeqs == {q \in SeqsUpTo(DictKeys, MaxLen) :
                q # <<>> /\ \A i, j \in 1..Len(q) : q[i] = q[j] => i = j}
DictLikes ==
    UNION {{DictLike(ks, ls, b) : ls \in [1..Len(ks) -> {Finite, NaN, LookupFails}],
                                   b \in {Opaque, PyList(<<NaN, TS1>>), PyTuple(<<Finite>>)}}
           : ks \in KeySeqs}
      \cup UNION {{DictLike(ks, ls, PyDict([i \in 1..Len(ks) |-> <<ks[i], NaN>>])) :
                        ls \in [1..Len(ks) -> {Finite, LookupFails}]}
                  : ks \in KeySeqs}

Containers == Lists \cup Tuples \cup NdArrays \cup Dicts \cup DataFrames \cup SeriesSet
                \cup DictLikes
\* a value held by a dict as in {"calls": chain.calls}, or by a list
InDict(S) == {PyDict(<< <<PyStr("calls"), x>> >>) : x \in S}
InList(S) == {PyList(<<x>>) : x \in S}
RECURSIVE Level(_)
Level(d) ==
    IF d = 0 THEN Scalars
    ELSE IF d = 1 THEN Containers
    ELSE IF d % 2 = 0 THEN InDict(Level(d - 1))
    ELSE InList(Level(d - 1))
RawValues == UNION {Level(d) : d \in 0..MaxDepth}

\* ------------------------------------------------------------- state
NotYet == [t |-> "unset"]

VARIABLES
    pc,            \* position of the process
    importError,   \* _IMPORT_ERROR
    stdin,         \* content of standard input: [blank, doc]
    stdinRead,     \* whether sys.stdin.read() has been called
    payload,       \* main: payload
    action,        \* main: action
    args,          \* main: args
    dispatchCalls, \* number of calls of _dispatch
    result,        \* the raw value returned by _dispatch / given to _serialize_value
    normalized,    \* the tree _serialize_value returned
    exc,           \* the exception being handled by main's except clause
    stdout,        \* the documents written to standard output, in order
    errCall,       \* the arguments of the call of _err, if one was made
    uncaught       \* the exception that left main, if any

vars == <<pc, importError, stdin, stdinRead, payload, action, args, dispatchCalls,
          result, normalized, exc, stdout, errCall, uncaught>>

\* ---------------------------------------------------------- envelope
\* OkDumps without allow_nan=False
OkDumpsAllowNan(tree) ==
    JsonDumps(PyDict(<< <<PyStr("ok"), PyBool(TRUE)>>, <<PyStr("result"), tree>> >>), TRUE)

\* _ok(result): the tree, then json.dumps(..., allow_nan=False) of the payload
OkPayload(tree) == PyDict(<< <<PyStr("ok"), PyBool(TRUE)>>, <<PyStr("result"), tree>> >>)
OkDumps(tree) == JsonDumps(OkPayload(tree), FALSE)

\* _err that never writes details
_err_no_details(message, details) ==
    JsonDumps(PyDict(<< <<PyStr("ok"), PyBool(FALSE)>>, <<PyStr("error"), message>> >>), TRUE)

\* _err that writes details whatever it is
_err_always_details(message, details) ==
    JsonDumps(PyDict(<< <<PyStr("ok"), PyBool(FALSE)>>, <<PyStr("error"), message>>,
                        <<PyStr("details"), details>> >>), TRUE)

\* _err(message, details): the document written
_err(message, details) ==
    JsonDumps(
        PyDict(<< <<PyStr("ok"), PyBool(FALSE)>>, <<PyStr("error"), message>> >>
               \o (IF Truthy(details) THEN << <<PyStr("details"), details>> >> ELSE <<>>)),
        TRUE)

\* traceback.format_exc() inside the except clause
FormatExc(e) == PyStr("Traceback (most recent call last): ...")

\* ------------------------------------------------------------ requests
Actions == {"ticker_info", "download", "bogus"}
ActionFields ==
    {<<>>} \cup {<< <<"action", a>> >> : a \in {JNull, JStr(""), JNum("2")} \cup {JStr(x) : x \in Actions}}
ArgsFields ==
    {<<>>} \cup {<< <<"args", a>> >> :
        a \in {JObj(<<>>), JArr(<<>>), JObj(<< <<"ticker", JStr("AAPL")>> >>),
               JObj(<< <<"ticker", JStr("")>> >>), JObj(<< <<"tickers", JStr("AAPL MSFT")>> >>)}}
RequestDocs ==
    {NotJson, JNull, JNum("2"), JStr("download"), JArr(<<JNum("1")>>)}
        \cup {JObj(a \o g) : a \in ActionFields, g \in ArgsFields}
StdinInputs ==
    {[blank |-> TRUE, doc |-> NotJson]} \cup {[blank |-> FALSE, doc |-> d] : d \in RequestDocs}

\* what the import block can leave in _IMPORT_ERROR: None, or str(exc)
ImportOutcomes == {None, PyStr("No module named 'yfinance'"), PyStr("")}
\* str(exc) of what a provider call can raise
ProviderMessages == {"", "HTTP Error 404: Not Found"}

\* ------------------------------------------------------- _read_payload
_read_payload(raw) ==
    IF raw.blank THEN PyDict(<<>>) ELSE JsonLoads(raw.doc)

\* --------------------------------------------------------- _dispatch
NoAttribute(v, attr) ==
    Raise("AttributeError", CASE v.t = "None" -> "'NoneType' object has no attribute"
                               [] v.t = "list" -> "'list' object has no attribute"
                               [] OTHER -> "object has no attribute")

\* _handle_ticker_attr / _handle_download: the required argument, then the
\* provider call, which returns any raw value or raises
Handle(a, required, message) ==
    IF a.t # "dict" THEN {NoAttribute(a, "get")}
    ELSE IF ~Truthy(DictGet(a, required, None)) THEN {Raise("ValueError", message)}
    ELSE IF importError # None THEN {NoAttribute(None, "Ticker")}
    ELSE RawValues \cup {Raise("Exception", m) : m \in ProviderMessages}

UnknownAction(act) ==
    Raise("ValueError", CASE act = PyStr("bogus") -> "Unknown action 'bogus'"
                          [] act = PyInt(2) -> "Unknown action '2'"
                          [] OTHER -> "Unknown action")

\* the outcomes of _dispatch(action, args)
_dispatch(act, a) ==
    IF act = PyStr("download") THEN Handle(a, "tickers", "tickers is required")
    ELSE IF act = PyStr("ticker_info") THEN Handle(a, "ticker", "ticker is required")
    ELSE {UnknownAction(act)}

\* ------------------------------------------------------------ main()
Init ==
    /\ pc = "load"
    /\ importError = NotYet
    /\ stdin \in StdinInputs
    /\ stdinRead = FALSE
    /\ payload = NotYet
    /\ action = NotYet
    /\ args = NotYet
    /\ dispatchCalls = 0
    /\ result = NotYet
    /\ normalized = NotYet
    /\ exc = NotYet
    /\ stdout = <<>>
    /\ errCall = NotYet
    /\ uncaught = NotYet

\* lines 8-17: the guarded import
LoadModule ==
    /\ pc = "load"
    /\ \E e \in ImportOutcomes : importError' = e
    /\ pc' = "main"
    /\ UNCHANGED <<stdin, stdinRead, payload, action, args, dispatchCalls, result,
                   normalized, exc, stdout, errCall, uncaught>>

\* lines 450-455
ImportGuard ==
    /\ pc = "main"
    /\ IF Truthy(importError)
       THEN LET message == PyStr("Missing Python dependencies for yfinance bridge.")
                details == PyStr("Install with: pip install -r mcp/python/requirements.txt")
            IN  /\ stdout' = Append(stdout, _err(message, details))
                /\ errCall' = [message |-> message, details |-> details]
                /\ pc' = "exit"
       ELSE /\ pc' = "read"
            /\ UNCHANGED <<stdout, errCall>>
    /\ UNCHANGED <<importError, stdin, stdinRead, payload, action, args, dispatchCalls,
                   result, normalized, exc, uncaught>>

\* line 457
ReadPayload ==
    /\ pc = "read"
    /\ stdinRead' = TRUE
    /\ LET r == _read_payload(stdin)
       IN  IF IsRaise(r)
           THEN /\ uncaught' = r
                /\ pc' = "crashed"
                /\ UNCHANGED payload
           ELSE /\ payload' = r
                /\ pc' = "get"
                /\ UNCHANGED uncaught
    /\ UNCHANGED <<importError, stdin, action, args, dispatchCalls, result, normalized,
                   exc, stdout, errCall>>

\* lines 458-459
GetActionArgs ==
    /\ pc = "get"
    /\ IF payload.t # "dict"
       THEN /\ uncaught' = NoAttribute(payload, "get")
            /\ pc' = "crashed"
            /\ UNCHANGED <<action, args>>
       ELSE /\ action' = DictGet(payload, "action", None)
            /\ args' = DictGet(payload, "args", PyDict(<<>>))
            /\ pc' = "check"
            /\ UNCHANGED uncaught
    /\ UNCHANGED <<importError, stdin, stdinRead, payload, dispatchCalls, result,
                   normalized, exc, stdout, errCall>>

\* lines 461-463
CheckAction ==
    /\ pc = "check"
    /\ IF ~Truthy(action)
       THEN /\ stdout' = Append(stdout, _err(PyStr("Missing action in payload"), None))
            /\ errCall' = [message |-> PyStr("Missing action in payload"), details |-> None]
            /\ pc' = "exit"
       ELSE /\ pc' = "dispatch"
            /\ UNCHANGED <<stdout, errCall>>
    /\ UNCHANGED <<importError, stdin, stdinRead, payload, action, args, dispatchCalls,
                   result, normalized, exc, uncaught>>

\* line 466
Dispatch ==
    /\ pc = "dispatch"
    /\ dispatchCalls' = dispatchCalls + 1
    /\ \E o \in _dispatch(action, args) :
          IF IsRaise(o)
          THEN /\ exc' = o
               /\ pc' = "except"
               /\ UNCHANGED result
          ELSE /\ result' = o
               /\ pc' = "ok"
               /\ UNCHANGED exc
    /\ UNCHANGED <<importError, stdin, stdinRead, payload, action, args, normalized,
                   stdout, errCall, uncaught>>

\* line 467, _ok(result), lines 76-78: nothing is written when json.dumps raises
Ok ==
    /\ pc = "ok"
    /\ normalized' = _serialize_value(result)
    /\ LET text == OkDumps(_serialize_value(result))
       IN  IF IsRaise(text)
           THEN /\ exc' = text
                /\ pc' = "except"
                /\ UNCHANGED stdout
           ELSE /\ stdout' = Append(stdout, text)
                /\ pc' = "exit"
                /\ UNCHANGED exc
    /\ UNCHANGED <<importError, stdin, stdinRead, payload, action, args, dispatchCalls,
                   result, errCall, uncaught>>

\* lines 468-470
Except ==
    /\ pc = "except"
    /\ stdout' = Append(stdout, _err(PyStr(exc.msg), FormatExc(exc)))
    /\ errCall' = [message |-> PyStr(exc.msg), details |-> FormatExc(exc)]
    /\ pc' = "exit"
    /\ UNCHANGED <<importError, stdin, stdinRead, payload, action, args, dispatchCalls,
                   result, normalized, exc, uncaught>>

Next ==
    \/ LoadModule
    \/ ImportGuard
    \/ ReadPayload
    \/ GetActionArgs
    \/ CheckAction
    \/ Dispatch
    \/ Ok
    \/ Except

Spec == Init /\ [][Next]_vars

\* -------------------------------------- _serialize_value on its own
InitNormalize ==
    /\ pc = "normalize"
    /\ importError = None
    /\ stdin = [blank |-> TRUE, doc |-> NotJson]
    /\ stdinRead = FALSE
    /\ payload = NotYet
    /\ action = NotYet
    /\ args = NotYet
    /\ dispatchCalls = 0
    /\ result \in RawValues
    /\ normalized = NotYet
    /\ exc = NotYet
    /\ stdout = <<>>
    /\ errCall = NotYet
    /\ uncaught = NotYet

Normalize ==
    /\ pc = "normalize"
    /\ normalized' = _serialize_value(result)
    /\ pc' = "normalized"
    /\ UNCHANGED <<importError, stdin, stdinRead, payload, action, args, dispatchCalls,
                   result, exc, stdout, errCall, uncaught>>

NextNormalize == Normalize

SpecNormalize == InitNormalize /\ [][NextNormalize]_vars

\* ------------------------------------------------------------ properties
RECURSIVE ContainsNonFinite(_)
\* a NaN or infinite float anywhere in a normalized tree
ContainsNonFinite(tree) ==
    CASE tree.t = "float" -> IsNonFinite(tree)
      [] tree.t \in {"list", "tuple"} ->
            \E i \in 1..Len(tree.items) : ContainsNonFinite(tree.items[i])
      [] tree.t = "dict" ->
            \E i \in 1..Len(tree.pairs) : ContainsNonFinite(tree.pairs[i][2])
      [] OTHER -> FALSE

RECURSIVE DocHasNonFinite(_)
\* a NaN / Infinity / -Infinity token anywhere in a written document
DocHasNonFinite(doc) ==
    CASE doc.t = "jnum" -> doc.lit \in {"NaN", "Infinity", "-Infinity"}
      [] doc.t = "jarr" -> \E i \in 1..Len(doc.items) : DocHasNonFinite(doc.items[i])
      [] doc.t = "jobj" -> \E i \in 1..Len(doc.members) : DocHasNonFinite(doc.members[i][2])
      [] OTHER -> FALSE

IsFailure(doc) == doc.t = "jobj" /\ HasMember(doc, "ok") /\ Member(doc, "ok") = JBool(FALSE)
IsEnvelope(doc) ==
    /\ doc.t = "jobj"
    /\ HasMember(doc, "ok")
    /\ Member(doc, "ok").t = "jbool"
    /\ Member(doc, "ok") = JBool(FALSE) =>
          /\ HasMember(doc, "error")
          /\ Member(doc, "error").t = "jstr"
          /\ Member(doc, "error").s # ""
Finished == pc \in {"exit", "crashed"}
KeyNames(d) == {d.pairs[i][1].s : i \in 1..Len(d.pairs)}
Field(d, name) == DictGet(d, name, None)

\* C1: every run of main(), whatever standard input holds, ends with exactly
\* one envelope on standard output, whose ok is a boolean and whose error,
\* when ok is false, is a non-empty string.
C1_EnvelopeTotality ==
    Finished => Len(stdout) = 1 /\ IsEnvelope(stdout[1])

\* the exception handled by main came out of _dispatch (not out of _ok)
DispatchRaised == exc # NotYet /\ result = NotYet

\* C2: when _dispatch raises with message m, the run writes one failure
\* envelope with error = m and details = the traceback text and no success
\* envelope; a failure envelope lacks details exactly when the diagnostic
\* given to _err is empty or not supplied.
C2_FailureForwarded ==
    /\ DispatchRaised => \A i \in 1..Len(stdout) : IsFailure(stdout[i])
    /\ (pc = "exit" /\ DispatchRaised) =>
          stdout = << JObj(<< <<"ok", JBool(FALSE)>>, <<"error", JStr(exc.msg)>>,
                             <<"details", JStr(FormatExc(exc).s)>> >>) >>
    /\ \A i \in 1..Len(stdout) :
          IsFailure(stdout[i]) =>
              (~HasMember(stdout[i], "details") <=> errCall.details \in {None, PyStr("")})
C2_Witness ==
    /\ pc = "exit"
    /\ DispatchRaised
    /\ exc.msg = "ticker is required"
    /\ Len(stdout) = 1
    /\ HasMember(stdout[1], "details")

\* the request document was read and carries no action field
NoAction ==
    /\ payload # NotYet
    /\ payload.t = "dict"
    /\ \A i \in 1..Len(payload.pairs) : payload.pairs[i][1] # PyStr("action")

\* C3: a request without an action field (or empty standard input) ends with
\* exactly {"ok": false, "error": "Missing action in payload"}, no details,
\* and _dispatch is never called.
C3_MissingAction ==
    NoAction =>
        /\ dispatchCalls = 0
        /\ pc \notin {"dispatch", "ok", "except", "crashed"}
        /\ pc = "exit" =>
              stdout = << JObj(<< <<"ok", JBool(FALSE)>>,
                                 <<"error", JStr("Missing action in payload")>> >>) >>
C3_Witness ==
    /\ pc = "exit"
    /\ NoAction
    /\ stdin.blank
    /\ Len(stdout) = 1
    /\ ~HasMember(stdout[1], "details")

\* C4: when the import of the provider stack failed, main() writes the
\* dependency failure envelope and returns without reading standard input
\* and without calling _dispatch.
C4_ImportGuard ==
    (importError \notin {NotYet, None}) =>
        /\ ~stdinRead
        /\ dispatchCalls = 0
        /\ pc = "exit" =>
              stdout = << JObj(<< <<"ok", JBool(FALSE)>>,
                                 <<"error", JStr("Missing Python dependencies for yfinance bridge.")>>,
                                 <<"details", JStr("Install with: pip install -r mcp/python/requirements.txt")>> >>) >>

\* C5: the tree returned by _serialize_value holds no NaN and no infinite
\* number at any position.
C5_NoNonFinite ==
    pc = "normalized" => ~ContainsNonFinite(normalized)

\* C6: no written document holds a NaN or Infinity token; when the
\* normalized tree holds a non-finite number, _ok writes nothing, no success
\* envelope appears, and the run ends with exactly one failure envelope.
C6_RejectNonFinite ==
    /\ \A i \in 1..Len(stdout) : ~DocHasNonFinite(stdout[i])
    /\ (normalized # NotYet /\ ContainsNonFinite(normalized)) =>
          /\ pc \in {"except", "exit"}
          /\ uncaught = NotYet
          /\ pc = "except" => stdout = <<>>
          /\ pc = "exit" => Len(stdout) = 1 /\ IsFailure(stdout[1])
C6_Witness ==
    /\ pc = "exit"
    /\ normalized # NotYet
    /\ ContainsNonFinite(normalized)
    /\ Len(stdout) = 1
    /\ IsFailure(stdout[1])

RECURSIVE ShapeOK(_, _)
\* the shape of every table and series in out, the tree normalized from raw
ShapeOK(raw, out) ==
    CASE raw.t = "DataFrame" ->
            /\ Len(Field(out, "index").items) = Len(Field(out, "data").items)
            /\ Len(Field(out, "data").items) = Len(raw.values)
            /\ \A r \in 1..Len(Field(out, "data").items) :
                  Len(Field(out, "data").items[r].items) = Len(Field(out, "columns").items)
      [] raw.t = "Series" ->
            /\ Len(Field(out, "index").items) = Len(Field(out, "data").items)
            /\ Len(Field(out, "data").items) = Len(raw.values)
      [] raw.t \in {"list", "tuple"} ->
            \A i \in 1..Len(raw.items) : ShapeOK(raw.items[i], out.items[i])
      [] raw.t = "dict" /\ Len(raw.pairs) = 1 ->
            ShapeOK(raw.pairs[1][2], out.pairs[1][2])
      [] OTHER -> TRUE

\* C7: a normalized DataFrame has one index label per row and one cell per
\* column in every row; a normalized Series has one index label per datum;
\* also when the dataset is empty or has missing cells.
C7_ShapeInvariant ==
    pc = "normalized" => ShapeOK(result, normalized)
C7_Witness ==
    /\ pc = "normalized"
    /\ result.t = "DataFrame"
    /\ Len(result.values) = 2
    /\ Len(result.columns) = 2
    /\ result.values[1][2] = NaN
    /\ Len(Field(normalized, "data").items[1].items) = 2

LookupRaises(v) ==
    v.t = "DictLike" /\ \E i \in 1..Len(v.lookups) : v.lookups[i] = LookupFails

\* C9: when a lookup fails during the key/value attempt, _serialize_value
\* neither raises nor keeps the pairs built so far; it returns what the
\* first later rule matching the object gives: the mapping of a dict's own
\* items, the list of a list's or tuple's elements, else the object itself.
C9_LookupFallthrough ==
    (pc = "normalized" /\ LookupRaises(result)) =>
        /\ ~IsRaise(normalized)
        /\ result.base.t = "object" => normalized = result
        /\ result.base.t \in {"list", "tuple"} =>
              /\ normalized.t = "list"
              /\ Len(normalized.items) = Len(result.base.items)
              /\ \A i \in 1..Len(normalized.items) :
                    normalized.items[i] = _serialize_value(result.base.items[i])
        /\ result.base.t = "dict" =>
              /\ normalized.t = "dict"
              /\ KeyNames(normalized) = {Str(result.base.pairs[j][1]) : j \in 1..Len(result.base.pairs)}
              /\ \A i \in 1..Len(normalized.pairs) :
                    \E j \in 1..Len(result.base.pairs) :
                        /\ normalized.pairs[i][1] = PyStr(Str(result.base.pairs[j][1]))
                        /\ normalized.pairs[i][2] = _serialize_value(result.base.pairs[j][2])
C9_Witness ==
    /\ pc = "normalized"
    /\ LookupRaises(result)
    /\ Len(result.lookups) = 2
    /\ result.lookups[1] = Finite
    /\ result.lookups[2] = LookupFails
    /\ result.base.t = "dict"
    /\ normalized.t = "dict"

\* C10: a literal mapping with n entries normalizes to a Mapping with exactly
\* n pairs, the i-th being (str(k_i), _serialize_value(v_i)).
C10_MappingPairs ==
    (pc = "normalized" /\ result.t = "dict") =>
        /\ normalized.t = "dict"
        /\ Len(normalized.pairs) = Len(result.pairs)
        /\ \A i \in 1..Len(result.pairs) :
              normalized.pairs[i] = <<PyStr(Str(result.pairs[i][1])),
                                      _serialize_value(result.pairs[i][2])>>

====
